---- MODULE Spec2Model ----
(***************************************************************************)
(* A model of the cambio carbon-cycle box model (prowe12/timewar): the     *)
(* diagnostics of ClimateParams, the two variants of                       *)
(* propagate_climate_state, and the time-stepping drivers (the function    *)
(* cambio() of cambio.py and the script cambio3.1.py).                     *)
(*                                                                         *)
(* Numbers.  The program computes in floating point; the model computes in *)
(* fixed point.  Every quantity is an integer count of a unit:             *)
(*   time (year, dtime)            1/TimeScale year                        *)
(*   fluxes (F_ha, F_ao, ...)      1/FluxScale GtC/year                    *)
(*   stocks (C_atm, C_ocean)       1/StockScale GtC, StockScale =          *)
(*                                 FluxScale*TimeScale, so that            *)
(*                                 flux * dtime is a stock with no rounding*)
(*   temperatures                  1/TempScale K                           *)
(*   dimensionless factors         1/UnitScale                             *)
(*   albedo                        1/AlbedoScale, AlbedoScale =            *)
(*                                 RateScale*TimeScale                     *)
(*   pH                            1/PhScale                               *)
(* Sums and differences are exact; products by a non-integer constant and  *)
(* quotients round to the nearest unit (RDiv), as a floating-point         *)
(* operation rounds to the nearest representable number.                   *)
(***************************************************************************)
EXTENDS Integers, Sequences, FiniteSets, TLC

TimeScale == 2^2
FluxScale == 10^2
StockScale == FluxScale * TimeScale
TempScale == 10^3
UnitScale == 10^4
RateScale == 10^4
AlbedoScale == RateScale * TimeScale
PhScale == 10^6

\* a whole number of years, GtC, GtC/year, K in the model's units
Years(n) == n * TimeScale
GtC(n) == n * StockScale
GtCPerYear(n) == n * FluxScale
Kelvin(n) == n * TempScale

Abs(x) == IF x < 0 THEN -x ELSE x

\* np.abs, np.sign
Sign(x) == IF x > 0 THEN 1 ELSE IF x < 0 THEN -1 ELSE 0

\* a / b rounded to the nearest integer (b > 0)
RDiv(a, b) == (a + (b \div 2)) \div b

Min(a, b) == IF a < b THEN a ELSE b

Max(a, b) == IF a > b THEN a ELSE b

(***************************************************************************)
(* np.exp.  Argument in 1/TempScale, value in 1/UnitScale.  Exact (to the  *)
(* unit) at the integers -12..12, linear in between, saturating outside:   *)
(* beyond e^12 the quotient 1 / (1 + e^u) is below half a unit anyway.     *)
(***************************************************************************)
ExpTable ==
    <<0, 0, 0, 1, 3, 9, 25, 67, 183, 498, 1353, 3679, 10000, 27183, 73891,
      200855, 545982, 1484132, 4034288, 10966332, 29809580, 81030839,
      220264658, 598741417, 1627547914>>

ExpLimit == (Len(ExpTable) - 1) \div 2

ExpAt(k) == ExpTable[k + ExpLimit + 1]

Exp(u) ==
    IF u >= ExpLimit * TempScale THEN ExpAt(ExpLimit)
    ELSE IF u <= -ExpLimit * TempScale THEN ExpAt(-ExpLimit)
    ELSE LET k == u \div TempScale
             r == u % TempScale
             d == ExpAt(k + 1) - ExpAt(k)
         IN  IF d < 2000000 THEN ExpAt(k) + (d * r) \div TempScale
             ELSE ExpAt(k) + (d \div TempScale) * r

(***************************************************************************)
(* cambio_utils.py: the sigmoid gates.  t_in, t_transition and t_interval  *)
(* share one unit; floor and the result are in 1/UnitScale.  A zero        *)
(* t_interval is a ZeroDivisionError of the program: callers check         *)
(* SigmaRaises first.                                                      *)
(***************************************************************************)
SigmaRaises(t_interval) == t_interval = 0

SigmaArg(t_in, t_transition, t_interval) ==
    LET num == -(t_in - t_transition) * 3 * TempScale
    IN  IF t_interval > 0 THEN RDiv(num, t_interval)
        ELSE RDiv(-num, -t_interval)

sigmaup(t_in, transitiontime, transitiontimeinterval) ==
    LET denom == UnitScale + Exp(SigmaArg(t_in, transitiontime, transitiontimeinterval))
    IN  RDiv(UnitScale * UnitScale, denom)

\* the step-down sigmoid without its 1
sigmadown_unshifted(t_in, transitiontime, transitiontimeinterval) ==
    -sigmaup(t_in, transitiontime, transitiontimeinterval)

sigmadown(t_in, transitiontime, transitiontimeinterval) ==
    UnitScale - sigmaup(t_in, transitiontime, transitiontimeinterval)

\* the sigmoid with a floor stepping up instead of down
sigmafloor_rising(t_in, t_transition, t_interval, floor) ==
    LET temp == RDiv(UnitScale * UnitScale,
                     UnitScale + Exp(SigmaArg(t_in, t_transition, t_interval)))
    IN  RDiv(temp * (UnitScale - floor), UnitScale) + floor

sigmafloor(t_in, t_transition, t_interval, floor) ==
    LET temp == UnitScale
                - RDiv(UnitScale * UnitScale,
                       UnitScale + Exp(SigmaArg(t_in, t_transition, t_interval)))
    IN  RDiv(temp * (UnitScale - floor), UnitScale) + floor

\* a temperature in kelvin
Diagnose_kelvin_temperature(T_anomaly) == T_anomaly + Kelvin(273)

\* T_C = T_anomaly + 14
Diagnose_actual_temperature(T_anomaly) == T_anomaly + Kelvin(14)

\* T_F = T_C * 9 / 5 + 32
Diagnose_degreesF(T_C) == RDiv(T_C * 9, 5) + Kelvin(32)

(***************************************************************************)
(* np.log10 of the ratio c / c0 of two stocks (c > 0), in 1/PhScale.       *)
(* LogTable holds log10 at 1.0, 1.1, ..., 10.0; the ratio is brought into  *)
(* that decade and the value is linear between two entries.                *)
(***************************************************************************)
LogTable ==
    <<
      0, 41393, 79181, 113943, 146128, 176091, 204120, 230449, 255273, 278754,
      301030, 322219, 342423, 361728, 380211, 397940, 414973, 431364, 447158, 462398,
      477121, 491362, 505150, 518514, 531479, 544068, 556303, 568202, 579784, 591065,
      602060, 612784, 623249, 633468, 643453, 653213, 662758, 672098, 681241, 690196,
      698970, 707570, 716003, 724276, 732394, 740363, 748188, 755875, 763428, 770852,
      778151, 785330, 792392, 799341, 806180, 812913, 819544, 826075, 832509, 838849,
      845098, 851258, 857332, 863323, 869232, 875061, 880814, 886491, 892095, 897627,
      903090, 908485, 913814, 919078, 924279, 929419, 934498, 939519, 944483, 949390,
      954243, 959041, 963788, 968483, 973128, 977724, 982271, 986772, 991226, 995635,
      1000000>>

RECURSIVE Log10Ratio(_, _)
Log10Ratio(c, c0) ==
    IF c < c0 THEN Log10Ratio(c * 10, c0) - PhScale
    ELSE IF c >= 10 * c0 THEN Log10Ratio(c \div 10, c0) + PhScale
    ELSE LET step == c0 \div 10
             j == c \div step
             pos == c - j * step
             d == LogTable[j - 8] - LogTable[j - 9]
         IN  LogTable[j - 9] + (d * pos) \div step

(***************************************************************************)
(* climate_params.py: the constants of class ClimateParams.  A constant    *)
(* that is no whole number is held as its digits, the unit in the comment. *)
(***************************************************************************)
preindust_c_atm == 615
preindust_c_ocean == 350
\* 0.3, in tenths
preindust_albedo == 3
\* 8.2, in tenths
preindust_ph == 82
k_la == 120
k_al0 == 113
\* 0.0114, in 1/10^4
k_al1 == 114
\* 0.2, in tenths
k_oa == 2
\* 0.114, in thousandths
k_ao == 114
\* 0.034, in thousandths
ocean_degas_flux_feedback == 34
albedo_sensitivity == -100
albedo_transition_temperature == 4
albedo_transition_interval == 1
\* 0.0006 per year, in 1/RateScale
max_albedo_change_rate == 6
\* 0.9, in tenths
fractional_albedo_floor == 9
flux_al_transition_temp == 4
flux_al_transition_temp_interval == 1
\* 0.9, in tenths
fractional_flux_al_floor == 9

\* the two values of a float that are no number, as codes outside the range
\* of every number of the model
nan == -(2^30)
inf == 2^30

IsFinite(v) == v # nan /\ v # inf

\* the preindustrial albedo in the unit of albedo
PreindustAlbedo == (preindust_albedo * AlbedoScale) \div 10

\* the pH with the sign of the logarithm slipped
acidified_ocean_surface_ph(c_atm) ==
    IF c_atm < 0 THEN nan
    ELSE IF c_atm = 0 THEN inf
    ELSE (preindust_ph * PhScale) \div 10 + Log10Ratio(c_atm, GtC(preindust_c_atm))

\* ph = -np.log10(c_atm / preindust_c_atm) + preindust_ph; np.log10 of a
\* negative number is nan and of zero -inf, with a warning and no exception
diagnose_ocean_surface_ph(c_atm) ==
    IF c_atm < 0 THEN nan
    ELSE IF c_atm = 0 THEN inf
    ELSE (preindust_ph * PhScale) \div 10 - Log10Ratio(c_atm, GtC(preindust_c_atm))

\* climate_sensitivity = 3 / preindust_c_atm; clim_sens * (c_atm - preindust_c_atm)
diagnose_temp_anomaly(c_atm) ==
    LET diff == c_atm - GtC(preindust_c_atm)
        den == GtC(preindust_c_atm) \div TempScale
    IN  IF diff >= 0 THEN RDiv(3 * diff, den) ELSE -RDiv(3 * (-diff), den)

\* k_ao * c_atm
diagnose_flux_atm_ocean(c_atm) ==
    IF c_atm >= 0 THEN RDiv(k_ao * c_atm, 1000 * TimeScale)
    ELSE -RDiv(k_ao * (-c_atm), 1000 * TimeScale)

\* k_oa * (1 + ocean_degas_ff * temp_anomaly) * c_ocean
diagnose_flux_ocean_atm(c_ocean, temp_anomaly) ==
    LET g == UnitScale
             + (ocean_degas_flux_feedback * temp_anomaly)
               \div ((1000 * TempScale) \div UnitScale)
        h == (k_oa * g) \div 10
        p == h * c_ocean
    IN  IF p >= 0 THEN RDiv(p, UnitScale * TimeScale)
        ELSE -RDiv(-p, UnitScale * TimeScale)

\* k_al0 + k_al1 * sigma_floor_val * c_atm; m is k_al1 * sigma_floor_val in
\* 1/10^5 and p the product in 1/10^5 of a flux unit
diagnose_flux_atm_land(temp_anomaly, c_atm) ==
    LET sigma_floor_val ==
            sigmafloor(temp_anomaly, Kelvin(flux_al_transition_temp),
                       Kelvin(flux_al_transition_temp_interval),
                       (fractional_flux_al_floor * UnitScale) \div 10)
        m == RDiv(k_al1 * sigma_floor_val, 1000)
        p == m * (c_atm \div TimeScale)
    IN  GtCPerYear(k_al0)
        + (IF p >= 0 THEN RDiv(p, 10^5) ELSE -RDiv(-p, 10^5))

\* ClimateParams.k_la
diagnose_flux_land_atm == GtCPerYear(k_la)

\* an albedo that falls with no floor
diagnose_albedo_no_floor(temp_anom) ==
    RDiv(sigmafloor(temp_anom, Kelvin(albedo_transition_temperature),
                    Kelvin(albedo_transition_interval), 0)
         * PreindustAlbedo, UnitScale)

\* sigmafloor(temp_anom, temp, interval, floor) * preind_albedo
diagnose_albedo(temp_anom) ==
    RDiv(sigmafloor(temp_anom, Kelvin(albedo_transition_temperature),
                    Kelvin(albedo_transition_interval),
                    (fractional_albedo_floor * UnitScale) \div 10)
         * PreindustAlbedo, UnitScale)

\* the albedo with no limit on its change
diagnose_albedo_unlimited(temp_anom, prev_albedo, dtime) ==
    diagnose_albedo(temp_anom)

\* a limit on the rise of the albedo only
diagnose_albedo_w_rise_constraint(temp_anom, prev_albedo, dtime) ==
    LET albedo == diagnose_albedo(temp_anom)
        max_albedo_change == max_albedo_change_rate * dtime
    IN  IF prev_albedo # 0 /\ dtime # 0 /\ albedo - prev_albedo > max_albedo_change
        THEN prev_albedo + max_albedo_change
        ELSE albedo

\* the albedo, its change since prev_albedo held to max_albedo_change_rate * dtime
\* when both prev_albedo and dtime are nonzero (their defaults are 0)
diagnose_albedo_w_constraint(temp_anom, prev_albedo, dtime) ==
    LET albedo == diagnose_albedo(temp_anom)
        albedo_change == albedo - prev_albedo
        max_albedo_change == max_albedo_change_rate * dtime
        this_albedo_change == Sign(albedo_change) * max_albedo_change
    IN  IF prev_albedo # 0 /\ dtime # 0 /\ Abs(albedo_change) > max_albedo_change
        THEN prev_albedo + this_albedo_change
        ELSE albedo

\* (albedo - preindust_albedo) * alb_sens
\* the adjustment counted twice
diagnose_delta_t_twice(albedo) ==
    LET p == 2 * (albedo - PreindustAlbedo) * albedo_sensitivity * TempScale
    IN  IF p >= 0 THEN RDiv(p, AlbedoScale) ELSE -RDiv(-p, AlbedoScale)

diagnose_delta_t_from_albedo(albedo) ==
    LET p == (albedo - PreindustAlbedo) * albedo_sensitivity * TempScale
    IN  IF p >= 0 THEN RDiv(p, AlbedoScale) ELSE -RDiv(-p, AlbedoScale)

\* a draw centred on nothing: the noise alone
stochastic_noise(c_atm, std_dev, z) == z * std_dev

\* np.random.normal(c_atm, std_dev): z is the standard normal deviate drawn
diagnose_stochastic_c_atm(c_atm, std_dev, z) == c_atm + z * std_dev

(***************************************************************************)
(* The climate state is a dict: a function from field names to numbers.    *)
(* The dicts of a run live in a heap, a sequence of dicts, and a variable  *)
(* of the program holds a reference: an index into the heap.  Creating a   *)
(* dict appends to the heap; assigning through a reference changes the     *)
(* dict it refers to.                                                      *)
(***************************************************************************)
Toggles == [albedo_with_no_constraint : BOOLEAN, albedo_feedback : BOOLEAN,
            stochastic_C_atm : BOOLEAN, temp_anomaly_feedback : BOOLEAN]

\* the defaults of propagate_climate_state's keyword parameters
DefaultToggles == [albedo_with_no_constraint |-> FALSE, albedo_feedback |-> FALSE,
                   stochastic_C_atm |-> FALSE, temp_anomaly_feedback |-> FALSE]

\* cambio.py: the fields propagate_climate_state reads from prev_climatestate;
\* a missing one is a KeyError
PropagateNeeds(tg) ==
    {"C_atm", "C_ocean", "year"}
    \cup (IF tg.albedo_with_no_constraint THEN {"albedo"} ELSE {})

PropagateRaises(prev, tg) == ~(PropagateNeeds(tg) \subseteq DOMAIN prev)

\* c_atm += (F_la + F_oa - F_ao - F_al + F_ha) * dtime (the same line in both
\* propagators)
UpdateAtm(c_atm, F_la, F_oa, F_ao, F_al, F_ha, dtime) ==
    c_atm + (F_la + F_oa - F_ao - F_al + F_ha) * dtime

\* the ocean's update without the flux back to the atmosphere
LeakyUpdateOcean(c_ocean, F_ao, F_oa, dtime) == c_ocean + F_ao * dtime

\* c_ocean += (F_ao - F_oa) * dtime (the same line in both propagators)
UpdateOcean(c_ocean, F_ao, F_oa, dtime) == c_ocean + (F_ao - F_oa) * dtime

\* the anomaly with the feedback taken as on whatever the toggle
UngatedAnomaly(temp_anomaly_feedback, t_anom) == t_anom

\* cambio.py 229-234: the anomaly the fluxes F_oa and F_al are diagnosed with:
\* t_anom if temp_anomaly_feedback, else 0
FluxAnomaly(temp_anomaly_feedback, t_anom) ==
    IF temp_anomaly_feedback THEN t_anom ELSE 0

\* the year advanced by the default timestep of one year
DefaultStepYear(year, dtime) == year + Years(1)

\* cambio.py 280: prev_climatestate["year"] + dtime
NextYear(year, dtime) == year + dtime

\* a step that starts from the anomaly the previous state recorded
CarriedAnomaly(prev) == prev["T_anomaly"]

\* cambio.py: t_anom = climateParams.diagnose_temp_anomaly(c_atm), with c_atm the
\* C_atm of prev_climatestate
StartingAnomaly(prev) == diagnose_temp_anomaly(prev["C_atm"])

\* cambio.py: the dict propagate_climate_state builds from prev_climatestate
NextClimateState(prev, std_dev, dtime, F_ha, tg, z) ==
    LET c_atm == prev["C_atm"]
        c_ocean == prev["C_ocean"]
        t_anom == StartingAnomaly(prev)
        F_oa == diagnose_flux_ocean_atm(
                    c_ocean, FluxAnomaly(tg.temp_anomaly_feedback, t_anom))
        F_al == diagnose_flux_atm_land(
                    FluxAnomaly(tg.temp_anomaly_feedback, t_anom), c_atm)
        F_ao == diagnose_flux_atm_ocean(c_atm)
        F_la == diagnose_flux_land_atm
        c_atm_1 == UpdateAtm(c_atm, F_la, F_oa, F_ao, F_al, F_ha, dtime)
        c_ocean_1 == UpdateOcean(c_ocean, F_ao, F_oa, dtime)
        albedo == IF tg.albedo_with_no_constraint
                  THEN diagnose_albedo_w_constraint(t_anom, prev["albedo"], dtime)
                  ELSE diagnose_albedo_w_constraint(t_anom, 0, 0)
        t_anom_1 == IF tg.albedo_feedback
                    THEN t_anom + diagnose_delta_t_from_albedo(albedo)
                    ELSE t_anom
        c_atm_2 == IF tg.stochastic_C_atm
                   THEN diagnose_stochastic_c_atm(c_atm_1, std_dev, z)
                   ELSE c_atm_1
        pH == diagnose_ocean_surface_ph(c_atm_2)
        T_C == Diagnose_actual_temperature(t_anom_1)
    IN  [C_atm |-> c_atm_2, C_ocean |-> c_ocean_1, albedo |-> albedo,
         T_anomaly |-> t_anom_1, pH |-> pH, T_C |-> T_C, F_ha |-> F_ha,
         F_ao |-> F_ao, F_oa |-> F_oa, F_la |-> F_la, F_al |-> F_al,
         year |-> NextYear(prev["year"], dtime)]

\* a propagator that assigns to the dict it was given and returns it
propagate_in_place(h, ref, std_dev, dtime, F_ha, tg, z) ==
    [heap |-> [h EXCEPT ![ref] = NextClimateState(h[ref], std_dev, dtime, F_ha, tg, z)],
     ret |-> ref]

\* cambio.py: propagate_climate_state on the dict at ref: a new dict is created,
\* filled and returned; the result is the heap after the call and the reference
\* returned
propagate_climate_state(h, ref, std_dev, dtime, F_ha, tg, z) ==
    [heap |-> Append(h, NextClimateState(h[ref], std_dev, dtime, F_ha, tg, z)),
     ret |-> Len(h) + 1]

\* cambio_utils_compare.py: the fields its propagate_climate_state reads
CompareNeeds(tg) == PropagateNeeds(tg)

\* cambio_utils_compare.py: with albedo_feedback the call of
\* climateParams.diagnose_delta_temmp_from_albedo, a method ClimateParams does not
\* have, is an AttributeError; a missing field is a KeyError
CompareRaises(prev, tg) ==
    tg.albedo_feedback \/ ~(CompareNeeds(tg) \subseteq DOMAIN prev)

\* cambio_utils_compare.py: the dict its propagate_climate_state returns: a deep
\* copy of the previous one with the fields assigned (T_F among them).  The
\* albedo feedback never gets to add to T_anomaly: it raises (CompareRaises)
CompareNextClimateState(prev, std_dev, dtime, F_ha, tg, z) ==
    LET c_atm == prev["C_atm"]
        c_ocean == prev["C_ocean"]
        T_anomaly == diagnose_temp_anomaly(c_atm)
        F_oa == IF tg.temp_anomaly_feedback
                THEN diagnose_flux_ocean_atm(c_ocean, T_anomaly)
                ELSE diagnose_flux_ocean_atm(c_ocean, 0)
        F_al == IF tg.temp_anomaly_feedback
                THEN diagnose_flux_atm_land(T_anomaly, c_atm)
                ELSE diagnose_flux_atm_land(0, c_atm)
        F_ao == diagnose_flux_atm_ocean(c_atm)
        F_la == diagnose_flux_land_atm
        c_atm_1 == UpdateAtm(c_atm, F_la, F_oa, F_ao, F_al, F_ha, dtime)
        c_ocean_1 == UpdateOcean(c_ocean, F_ao, F_oa, dtime)
        albedo == IF tg.albedo_with_no_constraint
                  THEN diagnose_albedo_w_constraint(T_anomaly, prev["albedo"], dtime)
                  ELSE diagnose_albedo_w_constraint(T_anomaly, 0, 0)
        c_atm_2 == IF tg.stochastic_C_atm
                   THEN diagnose_stochastic_c_atm(c_atm_1, std_dev, z)
                   ELSE c_atm_1
        pH == diagnose_ocean_surface_ph(c_atm_2)
        T_C == Diagnose_actual_temperature(T_anomaly)
        T_F == Diagnose_degreesF(T_C)
        assigned == [C_atm |-> c_atm_2, C_ocean |-> c_ocean_1, albedo |-> albedo,
                     T_anomaly |-> T_anomaly, pH |-> pH, T_C |-> T_C, T_F |-> T_F,
                     F_ha |-> F_ha, F_ao |-> F_ao, F_oa |-> F_oa, F_la |-> F_la,
                     F_al |-> F_al, year |-> prev["year"] + dtime]
    IN  [k \in DOMAIN prev \cup DOMAIN assigned |->
            IF k \in DOMAIN assigned THEN assigned[k] ELSE prev[k]]

\* cambio_utils_compare.py: propagate_climate_state on the dict at ref: the copy
\* made by makeacopy is a new dict, assigned to and returned
compare_propagate_climate_state(h, ref, std_dev, dtime, F_ha, tg, z) ==
    [heap |-> Append(h, CompareNextClimateState(h[ref], std_dev, dtime, F_ha, tg, z)),
     ret |-> Len(h) + 1]

(***************************************************************************)
(* The state of a run.                                                     *)
(***************************************************************************)
VARIABLES
    driver,         \* who runs: "cambio" (cambio.py's function), "script"
                    \* (cambio3.1.py), "direct" (a caller of the propagator),
                    \* "call" (a caller of one diagnostic)
    cfg,            \* the arguments of the run
    pc,             \* where the run is
    time,           \* the scenario's time grid
    flux_human_atm, \* the scenario's forcing
    dt,             \* the timestep the loop passes to the propagator
    heap,           \* the climate-state dicts created so far
    climatestate,   \* the driver's variable climatestate: a reference
    climate,        \* the time series: field name -> sequence
    i,              \* the loop index (from 1)
    call,           \* the last call made: what was passed and what came back
    err,            \* the exception that ended the run, "" when none
    climate_params, \* the driver's variable climate_params
    climateParams   \* the driver's variable climateParams

vars == <<driver, cfg, pc, time, flux_human_atm, dt, heap, climatestate,
          climate, i, call, err, climate_params, climateParams>>

\* the longest scenario of a scripted run, and the years a cambio() run spans
MaxSteps == 2

\* cambio.py, docstring of cambio(): start_year = 1750.0
StartYear == 1750

\* cambio.py, docstring of cambio(): transition_duration = 20.0
TransitionDuration == 20

StopYears == {Years(StartYear + k) : k \in -1..MaxSteps}

\* the stop years of the script: spans of whole multiples of three years, which
\* np.linspace divides into 1, 2, 3 or 4 steps of whole quarter years
ScriptStopYears == {Years(StartYear + 3 * k) : k \in -1..MaxSteps}

\* timesteps: minus one year, none, half a year, one year, two years
DTimes == {-Years(1), 0, Years(1) \div 2, Years(1), Years(2)}

TransitionWidths == {0, Years(TransitionDuration)}

\* the standard deviations of the stochastic C_atm: none, 0.1 GtC
StdDevs == {0, GtC(1) \div 10}

\* the standard normal deviates a draw can give
Deviates == {-1, 0, 1}

(***************************************************************************)
(* The forcing a scenario holds at index k (from 1).  The curve of         *)
(* make_emissions_scenario_lte is taken as given, by its shape: no         *)
(* emissions; emissions rising by 1 GtC/year a step; emissions of          *)
(* 10 GtC/year at the peak flattened to a long-term -700 GtC/year.         *)
(***************************************************************************)
Profiles == {"none", "rising", "sink"}

ForcingAt(profile, k) ==
    CASE profile = "none" -> 0
      [] profile = "rising" -> GtCPerYear(k)
      [] profile = "sink" -> IF k = 1 THEN GtCPerYear(10) ELSE GtCPerYear(-700)

\* a / b rounded to the nearest integer (b > 0), a of either sign
SDiv(a, b) == IF a >= 0 THEN RDiv(a, b) ELSE -RDiv(-a, b)

\* np.linspace(t_start, t_stop, nsteps)
linspace(t_start, t_stop, nsteps) ==
    [k \in 1..nsteps |->
        IF nsteps = 1 THEN t_start
        ELSE t_start + SDiv((k - 1) * (t_stop - t_start), nsteps - 1)]

\* the number of points from start_year in steps of dtime before stop_year
GridLength(start_year, stop_year, dtime) ==
    (stop_year - start_year + dtime - 1) \div dtime

\* the time grid of the generator cambio() calls with (start_year, stop_year,
\* dtime, ...): evenly spaced from start_year by dtime, stop_year excluded
TimeGrid(start_year, stop_year, dtime) ==
    [k \in 1..GridLength(start_year, stop_year, dtime) |->
        start_year + (k - 1) * dtime]

\* the generator cambio() calls rejects a degenerate configuration
GridRaises(start_year, stop_year, dtime, width) ==
    width = 0 \/ dtime <= 0 \/ stop_year <= start_year

\* cambio_utils.py, make_emissions_scenario: what ends the script's call of the
\* generator in an exception: sigmadown(t_0, t_trans, 0) divides by zero, and
\* PostPeakFlattener takes np.max of an empty array
ScenarioRaises(nsteps, delta_t_trans) ==
    SigmaRaises(delta_t_trans) \/ nsteps = 0

(***************************************************************************)
(* cambio_utils.py: PostPeakFlattener (post_peak_flattener of              *)
(* cambio_utils_compare.py is the same code).  time in 1/TimeScale year,   *)
(* eps and epslongterm in 1/FluxScale GtC/year.                            *)
(***************************************************************************)
\* np.max(eps), eps not empty
RECURSIVE SeqMax(_)
SeqMax(s) == IF Len(s) = 1 THEN s[1] ELSE Max(s[1], SeqMax(Tail(s)))

\* np.where(eps == v)[0][0], counted from 1: the first index from k holding v
RECURSIVE FirstIndexOf(_, _, _)
FirstIndexOf(s, v, k) == IF s[k] = v THEN k ELSE FirstIndexOf(s, v, k + 1)

\* the last index at which eps attains its maximum
LastPeak(eps) ==
    CHOOSE k \in 1..Len(eps) :
        /\ eps[k] = SeqMax(eps)
        /\ \A j \in (k + 1)..Len(eps) : eps[j] # SeqMax(eps)

\* ipeak = np.where(eps == np.max(eps))[0][0]
PeakIndex(eps) == FirstIndexOf(eps, SeqMax(eps), 1)

\* np.max of an empty array is a ValueError
FlattenerRaises(eps) == Len(eps) = 0

\* a weight falling with the distance, not with its square
FlattenerWeightLinear(t, t_peak, transitiontimeinterval) ==
    IF transitiontimeinterval = 0
    THEN IF t = t_peak THEN nan ELSE 0
    ELSE Exp(-RDiv(Abs(t - t_peak) * TempScale, Abs(transitiontimeinterval)))

\* np.exp(-((time[i] - time[ipeak]) ** 2) / transitiontimeinterval**2), in
\* 1/UnitScale.  With a zero interval numpy divides with a warning: -0.0 / 0 is
\* nan, and -x / 0 is -inf, whose exponential is 0.
FlattenerWeight(t, t_peak, transitiontimeinterval) ==
    IF transitiontimeinterval = 0
    THEN IF t = t_peak THEN nan ELSE 0
    ELSE Exp(-RDiv((t - t_peak)^2 * TempScale, transitiontimeinterval^2))

\* a blend that decays to zero: the long-term level left out
FlattenedToZero(a, b, weight) ==
    IF weight = nan THEN nan ELSE SDiv(weight * b, UnitScale)

\* neweps[i] = a + weight * (b - a)
Flattened(a, b, weight) ==
    IF weight = nan THEN nan ELSE a + SDiv(weight * (b - a), UnitScale)

\* (the parameter time is years here: time names the driver's variable)
PostPeakFlattener(years, eps, transitiontimeinterval, epslongterm) ==
    LET ipeak == PeakIndex(eps)
        b == eps[ipeak]
        a == epslongterm
    IN  [k \in 1..Len(eps) |->
            IF k < ipeak THEN eps[k]
            ELSE Flattened(a, b, FlattenerWeight(years[k], years[ipeak],
                                                 transitiontimeinterval))]

\* cambio.py 151-166: the preindustrial climate state of cambio()
CambioBaseline(year) ==
    [C_atm |-> GtC(preindust_c_atm), C_ocean |-> GtC(preindust_c_ocean),
     albedo |-> PreindustAlbedo, T_anomaly |-> 0, pH |-> 0, T_C |-> 0,
     T_F |-> 0, F_ha |-> 0, F_ao |-> 0, F_oa |-> 0, F_al |-> 0, F_la |-> 0,
     year |-> year]

\* preindustrial_inputs.py: the dict climate_params, the entries the drivers
\* read and its deviation of 0.1 GtC
preindustrial_inputs ==
    [preindust_c_atm |-> GtC(preindust_c_atm),
     preindust_c_ocean |-> GtC(preindust_c_ocean),
     preindust_albedo |-> PreindustAlbedo,
     Stochastic_c_atm_std_dev |-> GtC(1) \div 10]

\* a bundle that keeps the deviation of preindustrial_inputs.py, whatever it is
\* given
DefaultClimateParams(stochastic_c_atm_std_dev) ==
    [stochastic_c_atm_std_dev |-> GtC(1) \div 10]

\* climate_params.py: ClimateParams.__init__ stores the deviation it is given
ClimateParams(stochastic_c_atm_std_dev) ==
    [stochastic_c_atm_std_dev |-> stochastic_c_atm_std_dev]

\* the drivers' two bundles before they are made
NoParams == << >>

\* cambio_utils.py: CreateClimateState (it sets no year)
CreateClimateState ==
    [C_atm |-> GtC(preindust_c_atm), C_ocean |-> GtC(preindust_c_ocean),
     albedo |-> PreindustAlbedo, T_anomaly |-> 0, pH |-> 0, T_C |-> 0,
     T_F |-> 0, F_ha |-> 0, F_ao |-> 0, F_oa |-> 0, F_al |-> 0, F_la |-> 0]

\* climatestate["year"] = ...: the dict with one more field, or one reassigned
SetField(d, key, v) ==
    [k \in DOMAIN d \cup {key} |-> IF k = key THEN v ELSE d[k]]

\* for key in climatestate: climate[key] = np.zeros(ntimes)
ZeroSeries(state, ntimes) ==
    [key \in DOMAIN state |-> [k \in 1..ntimes |-> 0]]

\* for key in climatestate: climate[key][i] = climatestate[key]
AppendToSeries(series, state, k) ==
    [key \in DOMAIN series |->
        IF key \in DOMAIN state THEN [series[key] EXCEPT ![k] = state[key]]
        ELSE series[key]]

\* a timestep of one year, the default of the propagator's dtime
UnitTimestep(grid) == Years(1)

\* cambio3.1.py: dt = time[1] - time[0]
ScriptTimestep(grid) == grid[2] - grid[1]

\* the loop passing the scenario's first forcing at every turn
StaleForcing(flux, k) == flux[1]

\* F_ha=flux_human_atm[i]: the forcing the loop passes at its turn k
LoopForcing(flux, k) == flux[k]

\* the toggles the drivers' calls of propagate_climate_state pass: none, so
\* the propagator's defaults, whatever the run was configured with
DriverToggles(c) == DefaultToggles

\* np.allclose(arr1, arr2): |a - b| <= atol + rtol * |b| with rtol = 1e-5, and
\* atol = 1e-8, which is below every unit of the model
allclose(arr1, arr2) ==
    \A k \in 1..Len(arr1) : Abs(arr1[k] - arr2[k]) <= Abs(arr2[k]) \div 10^5

\* cambio_utils_compare.py: is_same raises ValueError when the arrays differ and
\* returns nothing, that is None, when they do not
is_same(arr1, arr2) ==
    IF Len(arr1) # Len(arr2) \/ ~allclose(arr1, arr2) THEN "raise" ELSE "None"

\* Python's truth value of what is_same returns: None is false
Truthy(v) == v = "True"

NoCall == [fn |-> "none"]

\* the record of a call of a propagator: the reference passed, the dict it
\* referred to before the call, the other arguments and the reference
\* returned (0 when the call raised)
PropagateCall(variant, h, ref, dtime, F_ha, tg, z, ret) ==
    [fn |-> "propagate_climate_state", variant |-> variant, prev |-> ref,
     before |-> h[ref], dtime |-> dtime, F_ha |-> F_ha, tg |-> tg, z |-> z,
     ret |-> ret]

(***************************************************************************)
(* The inputs of the runs.                                                 *)
(***************************************************************************)
CambioConfigs ==
    [start_year : {Years(StartYear)}, stop_year : StopYears, dtime : DTimes,
     transition_duration : TransitionWidths, profile : Profiles,
     stochastic_c_atm_std_dev : StdDevs, tg : Toggles]

ScriptConfigs ==
    [t_start : {Years(StartYear)}, t_stop : ScriptStopYears,
     nsteps : 0..MaxSteps + 1, delta_t_trans : TransitionWidths,
     profile : Profiles, stochastic_c_atm_std_dev : StdDevs]

\* the states a direct caller passes to the propagator: the preindustrial one,
\* with and without a year, warmer ones, one of them with no albedo to limit,
\* and a preindustrial one whose albedo is low
DirectStates ==
    {CreateClimateState,
     CambioBaseline(Years(StartYear)),
     [CambioBaseline(Years(StartYear)) EXCEPT !["C_atm"] = GtC(1435)],
     [CambioBaseline(Years(StartYear)) EXCEPT !["C_atm"] = GtC(1640),
                                              !["albedo"] = PreindustAlbedo - 600],
     [CambioBaseline(Years(StartYear)) EXCEPT !["C_atm"] = GtC(1230),
                                              !["albedo"] = 0],
     [CambioBaseline(Years(StartYear)) EXCEPT !["albedo"] = PreindustAlbedo - 600]}

\* a standard deviation other than the default 0.1 only where it is used
DirectConfigs ==
    {c \in [variant : {"cambio", "compare"}, dtime : DTimes,
            stochastic_c_atm_std_dev : StdDevs, tg : Toggles] :
        c.tg.stochastic_C_atm \/ c.stochastic_c_atm_std_dev # 0}

DirectForcings == {GtCPerYear(-700), 0, GtCPerYear(10)}

\* the arguments of a direct call of diagnose_albedo_w_constraint
TempInputs == {Kelvin(k) : k \in {0, 3, 4, 5, 8}} \cup {Kelvin(7) \div 2}
AlbedoInputs == {0, PreindustAlbedo, PreindustAlbedo - 3, PreindustAlbedo - 1200}

\* the arguments of a direct call of PostPeakFlattener: an evenly spaced grid
\* of up to MaxSteps + 1 years and as many emissions
FlattenerWidths == {0, Years(1), Years(TransitionDuration)}
FlattenerLevels == {GtCPerYear(2), GtCPerYear(5), GtCPerYear(10)}
FlattenerLongTerms == {GtCPerYear(-700), GtCPerYear(2), GtCPerYear(12)}
FlattenerSeries ==
    UNION {[1..n -> FlattenerLevels] : n \in 0..(MaxSteps + 1)}

\* the arguments of direct calls of the sigmoids: points below, around and
\* above the transition, in the units of a temperature
SigmaPoints ==
    {Kelvin(k) : k \in {-20, 0, 3, 4, 5, 8, 30}} \cup {Kelvin(7) \div 2, Kelvin(9) \div 2}
SigmaTransitions == {0, Kelvin(4)}
SigmaIntervals == {-Kelvin(1), 0, Kelvin(1), Kelvin(TransitionDuration)}
SigmaFloors == {0, UnitScale \div 2, (fractional_albedo_floor * UnitScale) \div 10, UnitScale}

Idle ==
    /\ time = << >>
    /\ flux_human_atm = << >>
    /\ dt = 0
    /\ climate = << >>
    /\ i = 1
    /\ call = NoCall
    /\ err = ""
    /\ climate_params = NoParams
    /\ climateParams = NoParams

Init ==
    \/ /\ driver = "cambio"
       /\ cfg \in CambioConfigs
       /\ pc = "start"
       /\ heap = << >>
       /\ climatestate = 0
       /\ Idle
    \/ /\ driver = "script"
       /\ cfg \in ScriptConfigs
       /\ pc = "start"
       /\ heap = << >>
       /\ climatestate = 0
       /\ Idle
    \/ /\ driver = "direct"
       /\ cfg \in DirectConfigs
       /\ pc = "direct"
       /\ \E s \in DirectStates : heap = <<s>>
       /\ climatestate = 1
       /\ Idle
    \/ /\ driver = "call"
       /\ cfg \in {[fn |-> "diagnose_albedo_w_constraint"],
                   [fn |-> "PostPeakFlattener"], [fn |-> "sigmafloor"],
                   [fn |-> "sigmaup"]}
       /\ pc = "call"
       /\ heap = << >>
       /\ climatestate = 0
       /\ Idle

Raise(e) ==
    /\ pc' = "error"
    /\ err' = e

\* cambio.py 130-138: cambio() calls the scenario generator
CambioScenario ==
    /\ driver = "cambio"
    /\ pc = "start"
    /\ IF GridRaises(cfg.start_year, cfg.stop_year, cfg.dtime, cfg.transition_duration)
       THEN /\ Raise("ConfigurationError")
            /\ UNCHANGED <<time, flux_human_atm>>
       ELSE /\ time' = TimeGrid(cfg.start_year, cfg.stop_year, cfg.dtime)
            /\ flux_human_atm' = [k \in 1..Len(time') |-> ForcingAt(cfg.profile, k)]
            /\ pc' = "baseline"
            /\ err' = err
    /\ UNCHANGED <<driver, cfg, climate_params, climateParams,
                   dt, heap, climatestate, climate, i, call>>

\* cambio3.1.py 139-149: the script calls the scenario generator
ScriptScenario ==
    /\ driver = "script"
    /\ pc = "start"
    /\ IF ScenarioRaises(cfg.nsteps, cfg.delta_t_trans)
       THEN /\ Raise(IF SigmaRaises(cfg.delta_t_trans)
                     THEN "ZeroDivisionError" ELSE "ValueError")
            /\ UNCHANGED <<time, flux_human_atm>>
       ELSE /\ time' = linspace(cfg.t_start, cfg.t_stop, cfg.nsteps)
            /\ flux_human_atm' = [k \in 1..Len(time') |-> ForcingAt(cfg.profile, k)]
            /\ pc' = "baseline"
            /\ err' = err
    /\ UNCHANGED <<driver, cfg, climate_params, climateParams,
                   dt, heap, climatestate, climate, i, call>>

\* cambio.py 144-172: the preindustrial state and the empty series
CambioBaselineStep ==
    /\ driver = "cambio"
    /\ pc = "baseline"
    /\ IF Len(time) = 0
       THEN /\ Raise("IndexError")
            /\ UNCHANGED <<dt, heap, climatestate, climate>>
       ELSE /\ heap' = <<CambioBaseline(time[1] - cfg.dtime)>>
            /\ climatestate' = 1
            /\ dt' = cfg.dtime
            /\ climate' = ZeroSeries(heap'[1], Len(time))
            /\ pc' = "loop"
            /\ err' = err
    /\ climate_params' = preindustrial_inputs
    /\ climateParams' = ClimateParams(cfg.stochastic_c_atm_std_dev)
    /\ UNCHANGED <<driver, cfg, time, flux_human_atm, i, call>>

\* cambio3.1.py 157-178: the preindustrial state, its year, dt, the empty series
ScriptBaselineStep ==
    /\ driver = "script"
    /\ pc = "baseline"
    /\ IF Len(time) < 2
       THEN /\ Raise("IndexError")
            /\ UNCHANGED <<dt, heap, climatestate, climate>>
       ELSE /\ heap' = <<SetField(CreateClimateState, "year", time[1])>>
            /\ climatestate' = 1
            /\ dt' = ScriptTimestep(time)
            /\ climate' = ZeroSeries(heap'[1], Len(time))
            /\ pc' = "loop"
            /\ err' = err
    /\ climate_params' = preindustrial_inputs
    /\ climateParams' = ClimateParams(cfg.stochastic_c_atm_std_dev)
    /\ UNCHANGED <<driver, cfg, time, flux_human_atm, i, call>>

\* cambio.py 175-184, cambio3.1.py 182-193: one turn of the loop
Step ==
    /\ driver \in {"cambio", "script"}
    /\ pc = "loop"
    /\ i <= Len(time)
    /\ LET tg == DriverToggles(cfg)
           F_ha == LoopForcing(flux_human_atm, i)
       IN  IF PropagateRaises(heap[climatestate], tg)
           THEN /\ Raise("KeyError")
                /\ call' = PropagateCall("cambio", heap, climatestate, dt, F_ha, tg, 0, 0)
                /\ UNCHANGED <<heap, climatestate, climate, i>>
           ELSE \E z \in (IF tg.stochastic_C_atm THEN Deviates ELSE {0}) :
                LET r == propagate_climate_state(
                             heap, climatestate,
                             climateParams.stochastic_c_atm_std_dev,
                             dt, F_ha, tg, z)
                IN  /\ heap' = r.heap
                    /\ climatestate' = r.ret
                    /\ climate' = AppendToSeries(climate, r.heap[r.ret], i)
                    /\ i' = i + 1
                    /\ call' = PropagateCall("cambio", heap, climatestate, dt,
                                             F_ha, tg, z, r.ret)
                    /\ pc' = IF i = Len(time) THEN "qc" ELSE "loop"
                    /\ err' = err
    /\ UNCHANGED <<driver, cfg, climate_params, climateParams,
                   time, flux_human_atm, dt>>

\* cambio.py 186-192: the two checks after the loop, and the return
QualityCheck ==
    /\ driver = "cambio"
    /\ pc = "qc"
    /\ LET years == is_same(time, climate["year"])
           emissions == is_same(flux_human_atm, climate["F_ha"])
       IN  IF years = "raise" THEN Raise("Failed QC: arrays differ!")
           ELSE IF ~Truthy(years)
           THEN Raise("The input and output times differ!")
           ELSE IF emissions = "raise" THEN Raise("Failed QC: arrays differ!")
           ELSE IF ~Truthy(emissions)
           THEN Raise("The input and output anthropogenic emissions differ!")
           ELSE /\ pc' = "returned"
                /\ err' = err
    /\ UNCHANGED <<driver, cfg, climate_params, climateParams,
                   time, flux_human_atm, dt, heap, climatestate,
                   climate, i, call>>

\* cambio3.1.py 196-200: the script's checks are commented out; it goes on to plot
ScriptDone ==
    /\ driver = "script"
    /\ pc = "qc"
    /\ pc' = "returned"
    /\ UNCHANGED <<driver, cfg, climate_params, climateParams,
                   time, flux_human_atm, dt, heap, climatestate,
                   climate, i, call, err>>

\* a caller passes its state to one of the two propagators, and goes on with the
\* state returned
DirectCall ==
    /\ driver = "direct"
    /\ pc = "direct"
    /\ i <= MaxSteps
    /\ \E F_ha \in DirectForcings :
       \E z \in (IF cfg.tg.stochastic_C_atm THEN Deviates ELSE {0}) :
          LET raises == IF cfg.variant = "cambio"
                        THEN PropagateRaises(heap[climatestate], cfg.tg)
                        ELSE CompareRaises(heap[climatestate], cfg.tg)
              params == ClimateParams(cfg.stochastic_c_atm_std_dev)
              r == IF cfg.variant = "cambio"
                   THEN propagate_climate_state(
                            heap, climatestate, params.stochastic_c_atm_std_dev,
                            cfg.dtime, F_ha, cfg.tg, z)
                   ELSE compare_propagate_climate_state(
                            heap, climatestate, params.stochastic_c_atm_std_dev,
                            cfg.dtime, F_ha, cfg.tg, z)
          IN  IF raises
              THEN /\ Raise(IF cfg.variant = "compare" /\ cfg.tg.albedo_feedback
                            THEN "AttributeError" ELSE "KeyError")
                   /\ call' = PropagateCall(cfg.variant, heap, climatestate,
                                            cfg.dtime, F_ha, cfg.tg, z, 0)
                   /\ UNCHANGED <<heap, climatestate, i>>
              ELSE /\ heap' = r.heap
                   /\ climatestate' = r.ret
                   /\ i' = i + 1
                   /\ call' = PropagateCall(cfg.variant, heap, climatestate,
                                            cfg.dtime, F_ha, cfg.tg, z, r.ret)
                   /\ UNCHANGED <<pc, err>>
    /\ UNCHANGED <<driver, cfg, climate_params, climateParams,
                   time, flux_human_atm, dt, climate>>

\* a caller calls diagnose_albedo_w_constraint, with or without the two
\* optional arguments (their defaults are 0)
CallAlbedo ==
    /\ driver = "call"
    /\ cfg.fn = "diagnose_albedo_w_constraint"
    /\ pc = "call"
    /\ \E temp_anom \in TempInputs, prev_albedo \in AlbedoInputs, dtime \in DTimes :
          call' = [fn |-> "diagnose_albedo_w_constraint", temp_anom |-> temp_anom,
                   prev_albedo |-> prev_albedo, dtime |-> dtime,
                   ret |-> diagnose_albedo_w_constraint(temp_anom, prev_albedo, dtime)]
    /\ pc' = "called"
    /\ UNCHANGED <<driver, cfg, climate_params, climateParams,
                   time, flux_human_atm, dt, heap, climatestate,
                   climate, i, err>>

\* a caller calls PostPeakFlattener with a time grid and emissions of one length
CallFlattener ==
    /\ driver = "call"
    /\ cfg.fn = "PostPeakFlattener"
    /\ pc = "call"
    /\ \E eps \in FlattenerSeries, step \in DTimes \ {0},
          width \in FlattenerWidths, epslongterm \in FlattenerLongTerms :
          LET grid == [k \in 1..Len(eps) |-> Years(StartYear) + (k - 1) * step]
          IN  call' = [fn |-> "PostPeakFlattener", time |-> grid, eps |-> eps,
                       transitiontimeinterval |-> width,
                       epslongterm |-> epslongterm,
                       raised |-> FlattenerRaises(eps),
                       ret |-> IF FlattenerRaises(eps) THEN << >>
                               ELSE PostPeakFlattener(grid, eps, width, epslongterm)]
    /\ pc' = "called"
    /\ UNCHANGED <<driver, cfg, climate_params, climateParams,
                   time, flux_human_atm, dt, heap, climatestate,
                   climate, i, err>>

\* a caller calls sigmafloor at two points, the second not below the first
CallSigmafloor ==
    /\ driver = "call"
    /\ cfg.fn = "sigmafloor"
    /\ pc = "call"
    /\ \E t_in \in SigmaPoints, t_later \in SigmaPoints, t_transition \in SigmaTransitions,
          t_interval \in SigmaIntervals, floor \in SigmaFloors :
          /\ t_in <= t_later
          /\ call' = [fn |-> "sigmafloor", t_in |-> t_in, t_later |-> t_later,
                      t_transition |-> t_transition, t_interval |-> t_interval,
                      floor |-> floor, raised |-> SigmaRaises(t_interval),
                      ret |-> IF SigmaRaises(t_interval) THEN 0
                              ELSE sigmafloor(t_in, t_transition, t_interval, floor),
                      ret_later |-> IF SigmaRaises(t_interval) THEN 0
                                    ELSE sigmafloor(t_later, t_transition,
                                                    t_interval, floor)]
    /\ pc' = "called"
    /\ UNCHANGED <<driver, cfg, climate_params, climateParams,
                   time, flux_human_atm, dt, heap, climatestate,
                   climate, i, err>>

\* a caller calls sigmaup and sigmadown at one point, and sigmaup at the
\* transition itself
CallSigmaup ==
    /\ driver = "call"
    /\ cfg.fn = "sigmaup"
    /\ pc = "call"
    /\ \E t_in \in SigmaPoints, transitiontime \in SigmaTransitions,
          transitiontimeinterval \in SigmaIntervals :
          call' = [fn |-> "sigmaup", t_in |-> t_in, transitiontime |-> transitiontime,
                   transitiontimeinterval |-> transitiontimeinterval,
                   raised |-> SigmaRaises(transitiontimeinterval),
                   up |-> IF SigmaRaises(transitiontimeinterval) THEN 0
                          ELSE sigmaup(t_in, transitiontime, transitiontimeinterval),
                   down |-> IF SigmaRaises(transitiontimeinterval) THEN 0
                            ELSE sigmadown(t_in, transitiontime, transitiontimeinterval),
                   up_at_transition |->
                       IF SigmaRaises(transitiontimeinterval) THEN 0
                       ELSE sigmaup(transitiontime, transitiontime,
                                    transitiontimeinterval)]
    /\ pc' = "called"
    /\ UNCHANGED <<driver, cfg, climate_params, climateParams,
                   time, flux_human_atm, dt, heap, climatestate,
                   climate, i, err>>

Next ==
    \/ CambioScenario
    \/ ScriptScenario
    \/ CambioBaselineStep
    \/ ScriptBaselineStep
    \/ Step
    \/ QualityCheck
    \/ ScriptDone
    \/ DirectCall
    \/ CallAlbedo
    \/ CallFlattener
    \/ CallSigmafloor
    \/ CallSigmaup

Spec == Init /\ [][Next]_vars

(***************************************************************************)
(* The claims.                                                             *)
(***************************************************************************)
Driven == driver \in {"cambio", "script"}

\* the loop has run to its end
LoopDone ==
    /\ Driven
    /\ Len(heap) >= 1
    /\ pc \in {"qc", "returned"} \/ (pc = "error" /\ i > Len(time))

\* the call recorded is a call of a propagator that returned
Propagated == call.fn = "propagate_climate_state" /\ call.ret # 0

\* C1: after a full run of a driver the year series equals the scenario's time
\* array, index by index.
C1_YearSeriesIsTime ==
    LoopDone => \A k \in 1..Len(time) : climate["year"][k] = time[k]

\* C2: after a full run of a driver the F_ha series equals the scenario's forcing,
\* index by index; so does, at every turn of the loop, the part written so far,
\* and the forcing the propagator was called with is the one it recorded.
C2_ForcingSeriesIsForcing ==
    (Driven /\ pc \in {"loop", "qc", "returned"}) =>
        /\ \A k \in 1..(i - 1) : climate["F_ha"][k] = flux_human_atm[k]
        /\ LoopDone => i = Len(time) + 1
        /\ Propagated => heap[call.ret]["F_ha"] = call.F_ha

\* a full run of a driver over a scenario whose forcing changes from one index
\* to the next
C2_Witness ==
    /\ LoopDone
    /\ Len(time) >= 2
    /\ flux_human_atm[1] # flux_human_atm[2]
    /\ climate["F_ha"][2] = flux_human_atm[2]

\* the two series of a run of cambio() reproduce the scenario
SeriesMatch ==
    /\ \A k \in 1..Len(time) : climate["year"][k] = time[k]
    /\ \A k \in 1..Len(time) : climate["F_ha"][k] = flux_human_atm[k]

\* C3: cambio() returns the series whenever the year and F_ha series match the
\* scenario; it ends in an error after the loop only when one of them diverges.
C3_ReturnsWhenSeriesMatch ==
    (driver = "cambio" /\ LoopDone /\ pc # "qc" /\ SeriesMatch) => pc = "returned"

\* C4: every propagation step of a run of cambio() is made with the toggles the
\* caller passed to cambio().
C4_TogglesGovernEveryStep ==
    (driver = "cambio" /\ call.fn = "propagate_climate_state") => call.tg = cfg.tg
\* C5: one propagation with the stochastic toggle off conserves mass: the change
\* of C_atm plus the change of C_ocean is (F_la - F_al + F_ha) * dtime, with the
\* fluxes the new state records; F_ao and F_oa cancel.
C5_MassConservation ==
    (Propagated /\ ~call.tg.stochastic_C_atm) =>
        LET prev == call.before
            new == heap[call.ret]
        IN  (new["C_atm"] - prev["C_atm"]) + (new["C_ocean"] - prev["C_ocean"])
            = (new["F_la"] - new["F_al"] + new["F_ha"]) * call.dtime

\* a propagation with the stochastic toggle off and the temperature feedback on,
\* a forcing, and exchange fluxes that differ from one another
C5_Witness ==
    /\ Propagated
    /\ ~call.tg.stochastic_C_atm
    /\ call.tg.temp_anomaly_feedback
    /\ call.F_ha # 0
    /\ call.dtime = Years(1) \div 2
    /\ heap[call.ret]["F_ao"] # heap[call.ret]["F_oa"]
    /\ heap[call.ret]["C_ocean"] # call.before["C_ocean"]

\* C6: with a nonzero prev_albedo and a nonzero dtime, an unconstrained change
\* beyond max_albedo_change_rate * dtime is cut to exactly that size, in the
\* direction of the unconstrained change; a change within it is returned as is.
C6_RateLimitedAlbedo ==
    (/\ call.fn = "diagnose_albedo_w_constraint"
     /\ call.prev_albedo # 0
     /\ call.dtime # 0) =>
        LET unconstrained == diagnose_albedo(call.temp_anom)
            limit == max_albedo_change_rate * call.dtime
        IN  IF Abs(unconstrained - call.prev_albedo) > limit
            THEN /\ Abs(call.ret - call.prev_albedo) = limit
                 /\ Sign(call.ret - call.prev_albedo)
                    = Sign(unconstrained - call.prev_albedo)
            ELSE call.ret = unconstrained

\* C7: every climate state of a run has the field names of the baseline, the
\* series has exactly those fields, and every entry of every field of the series
\* up to the loop's index was written by the state propagated at that index.
C7_UniformSchema ==
    (Driven /\ Len(heap) >= 1) =>
        /\ \A r \in 1..Len(heap) : DOMAIN heap[r] = DOMAIN heap[1]
        /\ DOMAIN climate = DOMAIN heap[1]
        /\ \A key \in DOMAIN climate : \A k \in 1..(i - 1) :
              /\ key \in DOMAIN heap[k + 1]
              /\ climate[key][k] = heap[k + 1][key]

\* the baseline a driver built, from its inputs
BaselineOfRun ==
    IF driver = "cambio" THEN CambioBaseline(time[1] - cfg.dtime)
    ELSE SetField(CreateClimateState, "year", time[1])

\* C8: a propagator does not change the state it is given: after the call the
\* dict passed holds what it held before, the dict returned is another one, and
\* the baseline of a run stays what it was built as.
C8_PrevStateNotMutated ==
    /\ call.fn = "propagate_climate_state" => heap[call.prev] = call.before
    /\ Propagated => (call.ret # call.prev /\ call.ret = Len(heap))
    /\ (Driven /\ Len(heap) >= 1) => heap[1] = BaselineOfRun

\* a second propagation of a run has returned, by either propagator
C8_Witness ==
    /\ Propagated
    /\ Len(heap) >= 3
    /\ heap[call.ret]["year"] # call.before["year"]
    /\ heap[call.ret]["C_atm"] # call.before["C_atm"]

\* the configuration of the run is degenerate: no transition width, a timestep
\* of zero or less, or a stop year not after the start year
Degenerate ==
    \/ /\ driver = "cambio"
       /\ \/ cfg.transition_duration = 0
          \/ cfg.dtime <= 0
          \/ cfg.stop_year <= cfg.start_year
    \/ /\ driver = "script"
       /\ \/ cfg.delta_t_trans = 0
          \/ cfg.t_stop <= cfg.t_start

\* C9: a run with a degenerate configuration is rejected before the first call
\* of the propagator; no climate state is propagated.
C9_ConfigurationFailsFast ==
    Degenerate => (call = NoCall /\ pc \in {"start", "error"} /\ Len(heap) = 0)

\* C10: no state with an undefined pH is appended to the series: a step that
\* leaves C_atm at zero or below ends the run in an error.
C10_NoUndefinedPh ==
    (Driven /\ Len(heap) >= 1) =>
        /\ \A k \in 1..Len(time) : IsFinite(climate["pH"][k])
        /\ \A r \in 2..Len(heap) : heap[r]["C_atm"] <= 0 => pc = "error"
\* C11: with ipeak the first index at which the base forcing attains its
\* maximum, the flattened forcing has the length of the base forcing, equals it
\* at every index before ipeak, and at every index from ipeak on is
\* long_term + exp(-((time[i] - time[ipeak])^2) / width^2) * (base[ipeak] - long_term).
C11_PostPeakFlattening ==
    (/\ call.fn = "PostPeakFlattener"
     /\ ~call.raised
     /\ call.transitiontimeinterval # 0) =>
        /\ Len(call.ret) = Len(call.eps)
        /\ \E ipeak \in 1..Len(call.eps) :
              /\ \A j \in 1..Len(call.eps) : call.eps[j] <= call.eps[ipeak]
              /\ \A j \in 1..(ipeak - 1) :
                    /\ call.eps[j] < call.eps[ipeak]
                    /\ call.ret[j] = call.eps[j]
              /\ \A j \in ipeak..Len(call.eps) :
                    call.ret[j]
                    = call.epslongterm
                      + SDiv(FlattenerWeight(call.time[j], call.time[ipeak],
                                             call.transitiontimeinterval)
                             * (call.eps[ipeak] - call.epslongterm), UnitScale)

\* a flattening whose peak is attained twice, after a lower first value, and
\* whose last value lies strictly between the peak and the long-term level
C11_Witness ==
    /\ call.fn = "PostPeakFlattener"
    /\ ~call.raised
    /\ call.transitiontimeinterval = Years(1)
    /\ Len(call.eps) = 3
    /\ call.eps[1] < call.eps[2]
    /\ call.eps[3] = call.eps[2]
    /\ call.ret[1] = call.eps[1]
    /\ call.ret[2] = call.eps[2]
    /\ call.ret[3] > call.epslongterm
    /\ call.ret[3] < call.eps[2]
\* the start year of the run's configuration
StartOfRun == IF driver = "cambio" THEN cfg.start_year ELSE cfg.t_start

BaselineExample ==
    /\ Propagated
    /\ call.before["C_atm"] = GtC(preindust_c_atm)
    /\ call.before["C_ocean"] = GtC(preindust_c_ocean)
    /\ call.before["albedo"] = PreindustAlbedo
    /\ call.dtime = Years(1)
    /\ call.tg = DefaultToggles
    /\ call.F_ha = 0

\* C13: propagating the preindustrial baseline one step of one year with every
\* feedback off and no forcing gives a state whose pH is 8.2.
C13_ExamplePhIsPreindustrial ==
    BaselineExample => heap[call.ret]["pH"] = (preindust_ph * PhScale) \div 10

\* C13, amended: that step gives a state whose anomaly is 0 and whose pH lies
\* above 8.2 by no more than 0.0001: the pH of the C_atm the step has updated,
\* which the baseline's net flux has lowered.
C13_ExamplePhNearPreindustrial ==
    BaselineExample =>
        /\ heap[call.ret]["T_anomaly"] = 0
        /\ heap[call.ret]["C_atm"] < GtC(preindust_c_atm)
        /\ heap[call.ret]["pH"] > (preindust_ph * PhScale) \div 10
        /\ heap[call.ret]["pH"] <= (preindust_ph * PhScale) \div 10 + PhScale \div 10^4

\* the example's call, by the propagator of cambio.py
C13_Witness == BaselineExample /\ call.variant = "cambio" /\ driver = "direct"
\* C14: for a width above zero and a floor from 0 to 1, sigmafloor lies between
\* the floor and 1, and is no greater at a later point than at an earlier one.
C14_SigmafloorRangeAndMonotone ==
    (call.fn = "sigmafloor" /\ call.t_interval > 0) =>
        /\ ~call.raised
        /\ call.floor <= call.ret
        /\ call.ret <= UnitScale
        /\ call.floor <= call.ret_later
        /\ call.ret_later <= UnitScale
        /\ call.ret_later <= call.ret

\* two calls across the transition: the value falls, strictly inside the range
C14_Witness ==
    /\ call.fn = "sigmafloor"
    /\ call.t_interval = Kelvin(1)
    /\ call.floor = UnitScale \div 2
    /\ call.t_in < call.t_transition
    /\ call.t_later > call.t_transition
    /\ call.ret_later < call.ret
    /\ call.ret < UnitScale
    /\ call.ret_later > call.floor

\* C15: for a nonzero width sigmaup and sigmadown add up to 1 at every point,
\* and sigmaup is 0.5 at the transition.
C15_SigmoidsAddToOne ==
    (call.fn = "sigmaup" /\ call.transitiontimeinterval # 0) =>
        /\ ~call.raised
        /\ call.up + call.down = UnitScale
        /\ call.up_at_transition = UnitScale \div 2

\* a call off the transition, each sigmoid strictly between 0 and 1 and the
\* two different
C15_Witness ==
    /\ call.fn = "sigmaup"
    /\ call.transitiontimeinterval # 0
    /\ call.t_in # call.transitiontime
    /\ call.up > 0
    /\ call.down > 0
    /\ call.up # call.down
\* the anomaly the propagator diagnoses from the C_atm of the state it is given
PrevAnomaly == diagnose_temp_anomaly(call.before["C_atm"])

\* C16: with temp_anomaly_feedback off, F_oa is k_oa * C_ocean_prev and F_al is
\* the sink at anomaly 0; with it on both use the anomaly of C_atm_prev.  F_ao is
\* k_ao * C_atm_prev and F_la is k_la whatever the toggles.
C16_TemperatureFeedbackGating ==
    Propagated =>
        LET prev == call.before
            new == heap[call.ret]
        IN  /\ new["F_ao"] = SDiv(k_ao * prev["C_atm"], 1000 * TimeScale)
            /\ new["F_la"] = GtCPerYear(k_la)
            /\ ~call.tg.temp_anomaly_feedback =>
                  /\ new["F_oa"] = SDiv(k_oa * prev["C_ocean"], 10 * TimeScale)
                  /\ new["F_al"] = diagnose_flux_atm_land(0, prev["C_atm"])
            /\ call.tg.temp_anomaly_feedback =>
                  /\ new["F_oa"] = diagnose_flux_ocean_atm(prev["C_ocean"], PrevAnomaly)
                  /\ new["F_al"] = diagnose_flux_atm_land(PrevAnomaly, prev["C_atm"])

\* propagations of a warm state by cambio.py's propagator: with the feedback
\* on the ocean gives off more than k_oa * C_ocean
C16_Witness ==
    /\ Propagated
    /\ call.variant = "cambio"
    /\ call.tg.temp_anomaly_feedback
    /\ PrevAnomaly > 0
    /\ heap[call.ret]["F_oa"] > SDiv(k_oa * call.before["C_ocean"], 10 * TimeScale)
    /\ heap[call.ret]["F_al"] < diagnose_flux_atm_land(0, call.before["C_atm"])

\* C17: the albedo of the new state is diagnosed from the anomaly of C_atm_prev,
\* before any adjustment; with albedo_feedback on the recorded T_anomaly is that
\* anomaly plus (albedo - preindust_albedo) * albedo_sensitivity, once; with it
\* off it is the anomaly itself.
C17_AlbedoFeedbackOrder ==
    Propagated =>
        LET prev == call.before
            new == heap[call.ret]
            adjustment == SDiv((new["albedo"] - PreindustAlbedo)
                               * albedo_sensitivity * TempScale, AlbedoScale)
        IN  /\ new["albedo"] =
                  (IF call.tg.albedo_with_no_constraint
                   THEN diagnose_albedo_w_constraint(PrevAnomaly, prev["albedo"],
                                                     call.dtime)
                   ELSE diagnose_albedo(PrevAnomaly))
            /\ new["T_anomaly"] =
                  (IF call.tg.albedo_feedback THEN PrevAnomaly + adjustment
                   ELSE PrevAnomaly)

\* a propagation with albedo_feedback on from a state warm enough to lower the
\* albedo: the recorded anomaly is above the one the albedo was diagnosed from
C17_Witness ==
    /\ Propagated
    /\ call.tg.albedo_feedback
    /\ heap[call.ret]["albedo"] < PreindustAlbedo
    /\ heap[call.ret]["albedo"] = diagnose_albedo(PrevAnomaly)
    /\ heap[call.ret]["T_anomaly"] > PrevAnomaly

\* C18: with albedo_with_no_constraint on, the previous albedo and dtime go to
\* the albedo diagnostic, so that (the previous albedo nonzero, dtime above
\* zero) the albedo changes by no more than max_albedo_change_rate * dtime; with
\* it off the albedo is the unconstrained one whatever the previous albedo.
C18_RateLimitToggle ==
    Propagated =>
        LET prev == call.before
            new == heap[call.ret]
        IN  /\ ~call.tg.albedo_with_no_constraint =>
                  new["albedo"] = diagnose_albedo(PrevAnomaly)
            /\ call.tg.albedo_with_no_constraint =>
                  /\ new["albedo"] = diagnose_albedo_w_constraint(
                                         PrevAnomaly, prev["albedo"], call.dtime)
                  /\ (prev["albedo"] # 0 /\ call.dtime > 0) =>
                        Abs(new["albedo"] - prev["albedo"])
                        <= max_albedo_change_rate * call.dtime

\* a propagation with the toggle on whose albedo was held back: it changed by
\* the whole of the limit and is not the unconstrained albedo
C18_Witness ==
    /\ Propagated
    /\ call.tg.albedo_with_no_constraint
    /\ call.dtime > 0
    /\ call.before["albedo"] # 0
    /\ heap[call.ret]["albedo"] # diagnose_albedo(PrevAnomaly)
    /\ Abs(heap[call.ret]["albedo"] - call.before["albedo"])
       = max_albedo_change_rate * call.dtime
\* the state the recorded call would give with stochastic_C_atm off and all its
\* other arguments the same
WithoutStochastic ==
    LET tg == [call.tg EXCEPT !.stochastic_C_atm = FALSE]
    IN  IF call.variant = "cambio"
        THEN NextClimateState(call.before, cfg.stochastic_c_atm_std_dev,
                              call.dtime, call.F_ha, tg, 0)
        ELSE CompareNextClimateState(call.before, cfg.stochastic_c_atm_std_dev,
                                     call.dtime, call.F_ha, tg, 0)

\* C19: with stochastic_C_atm on, the new state differs from the one the same
\* call gives with it off in C_atm and pH only: C_atm is a draw centred on the
\* updated value, pH is diagnosed from the draw, every other field is the same,
\* and the caller goes on from the state with the draw.
C19_StochasticToggleFrame ==
    (driver = "direct" /\ Propagated /\ call.tg.stochastic_C_atm) =>
        LET new == heap[call.ret]
            off == WithoutStochastic
        IN  /\ DOMAIN new = DOMAIN off
            /\ \A key \in DOMAIN new \ {"C_atm", "pH"} : new[key] = off[key]
            /\ new["C_atm"] = off["C_atm"] + call.z * cfg.stochastic_c_atm_std_dev
            /\ new["pH"] = diagnose_ocean_surface_ph(new["C_atm"])
            /\ climatestate = call.ret

\* a draw off its centre, with every feedback on: C_atm and pH are not those of
\* the call with the toggle off
C19_Witness ==
    /\ driver = "direct"
    /\ Propagated
    /\ call.variant = "cambio"
    /\ call.tg.stochastic_C_atm
    /\ call.tg.albedo_feedback
    /\ call.tg.temp_anomaly_feedback
    /\ call.z # 0
    /\ heap[call.ret]["C_atm"] # WithoutStochastic["C_atm"]
    /\ heap[call.ret]["pH"] # WithoutStochastic["pH"]

\* the timestep of the run: the driver's dt, or the dtime of a direct caller
StepOfRun == IF Driven THEN dt ELSE cfg.dtime

\* C20: every propagation returns a state whose year is prev.year + dtime, so
\* the years of the states of a run rise by dtime from one to the next, strictly
\* when dtime is above zero, whatever the toggles.
C20_YearAdvancesByTimestep ==
    /\ Propagated =>
          /\ heap[call.ret]["year"] = call.before["year"] + call.dtime
          /\ call.dtime > 0 => heap[call.ret]["year"] > call.before["year"]
    /\ driver \in {"cambio", "script", "direct"} =>
          \A r \in 2..Len(heap) : heap[r]["year"] = heap[r - 1]["year"] + StepOfRun

\* two propagations in a row by a direct caller, half a year each with every
\* toggle on
C20_Witness ==
    /\ driver = "direct"
    /\ Propagated
    /\ call.tg = [albedo_with_no_constraint |-> TRUE, albedo_feedback |-> TRUE,
                  stochastic_C_atm |-> TRUE, temp_anomaly_feedback |-> TRUE]
    /\ call.dtime = Years(1) \div 2
    /\ Len(heap) = 3
    /\ heap[3]["year"] = heap[1]["year"] + Years(1)
\* C21: the driver is a serial fold that ends: after turn k of the loop there
\* have been exactly k calls of the propagator, each on the state the call before
\* returned (the baseline first) with the forcing of its turn, each result is at
\* its index in every series, and the loop ends after Len(time) turns.
C21_SerialFold ==
    (Driven /\ Len(heap) >= 1 /\ pc \in {"loop", "qc", "returned"}) =>
        /\ Len(heap) = i
        /\ climatestate = Len(heap)
        /\ i <= Len(time) + 1
        /\ pc \in {"qc", "returned"} => i = Len(time) + 1
        /\ call.fn = "propagate_climate_state" =>
              /\ call.ret = i
              /\ call.prev = i - 1
              /\ call.F_ha = flux_human_atm[i - 1]
        /\ \A k \in 1..(i - 1) : \A key \in DOMAIN climate :
              /\ key \in DOMAIN heap[k + 1]
              /\ climate[key][k] = heap[k + 1][key]
\* the first index at which the base forcing of the recorded call of
\* PostPeakFlattener attains its maximum
CallPeak ==
    CHOOSE k \in 1..Len(call.eps) :
        /\ \A j \in 1..Len(call.eps) : call.eps[j] <= call.eps[k]
        /\ \A j \in 1..(k - 1) : call.eps[j] < call.eps[k]

\* a call of PostPeakFlattener that returned, its width not zero
Flattening ==
    /\ call.fn = "PostPeakFlattener"
    /\ ~call.raised
    /\ call.transitiontimeinterval # 0

\* C22: when the long-term level is no greater than the peak, the flattened
\* forcing from the peak on never rises from one index to the next, never
\* exceeds the peak and never falls below the long-term level.
C22_PostPeakDecay ==
    (Flattening /\ call.epslongterm <= call.eps[CallPeak]) =>
        /\ \A j \in CallPeak..Len(call.ret) :
              /\ call.ret[j] <= call.eps[CallPeak]
              /\ call.ret[j] >= call.epslongterm
        /\ \A j \in CallPeak..(Len(call.ret) - 1) : call.ret[j + 1] <= call.ret[j]

\* a decay over three points from the peak at the first: strictly down, the
\* last above the long-term level of 2 GtC/year
C22_Witness ==
    /\ Flattening
    /\ call.epslongterm = GtCPerYear(2)
    /\ call.transitiontimeinterval = Years(1)
    /\ Len(call.eps) = 3
    /\ CallPeak = 1
    /\ call.ret[1] = call.eps[1]
    /\ call.ret[2] < call.ret[1]
    /\ call.ret[3] < call.ret[2]
    /\ call.ret[3] >= call.epslongterm

\* the base forcing of the recorded call never falls, or never rises
Monotonic ==
    \/ \A j \in 1..(Len(call.eps) - 1) : call.eps[j] <= call.eps[j + 1]
    \/ \A j \in 1..(Len(call.eps) - 1) : call.eps[j] >= call.eps[j + 1]

\* the base forcing never rises, or never falls and attains its maximum at the
\* last index only
MonotonicToAnEnd ==
    \/ \A j \in 1..(Len(call.eps) - 1) : call.eps[j] >= call.eps[j + 1]
    \/ /\ \A j \in 1..(Len(call.eps) - 1) : call.eps[j] <= call.eps[j + 1]
       /\ \A j \in 1..(Len(call.eps) - 1) : call.eps[j] < call.eps[Len(call.eps)]

\* what the claim says of a peak at an end of the grid: at the last index the
\* flattened forcing is the base forcing; at the first every entry is the blend
\* anchored at the first time
DegeneratePeak ==
    /\ CallPeak \in {1, Len(call.eps)}
    /\ CallPeak = Len(call.eps) => call.ret = call.eps
    /\ (CallPeak = 1 /\ Len(call.eps) > 1) =>
          \A j \in 1..Len(call.eps) :
             call.ret[j]
             = call.epslongterm
               + SDiv(Exp(-RDiv((call.time[j] - call.time[1])^2 * TempScale,
                                call.transitiontimeinterval^2))
                      * (call.eps[1] - call.epslongterm), UnitScale)

\* C23: when the base forcing is monotonic over the grid, the peak is at an end
\* of it; at the last index the flattened forcing is the base forcing, at the
\* first every entry is replaced by the blend anchored at the first time.
C23_DegeneratePeak == (Flattening /\ Monotonic) => DegeneratePeak

\* C23, amended: the same of a base forcing that never rises, or never falls
\* and attains its maximum at the last index only.
C23_DegeneratePeakAtAnEnd == (Flattening /\ MonotonicToAnEnd) => DegeneratePeak

\* a falling base forcing of three values flattened from its first index to a
\* long-term level above its last two
C23_Witness ==
    /\ Flattening
    /\ Len(call.eps) = 3
    /\ call.eps[1] > call.eps[2]
    /\ call.eps[2] > call.eps[3]
    /\ call.epslongterm = GtCPerYear(12)
    /\ call.ret[1] = call.eps[1]
    /\ call.ret[3] > call.eps[1]
\* cambio.py 192: `return climate, climate_params`, the bundle cambio() hands
\* to its caller
ReturnedParams == climate_params

\* the bundles of a cambio() run are made
Constructed == driver = "cambio" /\ climateParams # NoParams

\* C24: the bundle cambio() returns is the bundle the run used: the deviation it
\* reports is the stochastic_c_atm_std_dev the run was configured with, from
\* construction to the end of the run.
C24_ReturnedParamsAreTheRunsParams ==
    Constructed =>
        /\ climateParams.stochastic_c_atm_std_dev = cfg.stochastic_c_atm_std_dev
        /\ ReturnedParams.Stochastic_c_atm_std_dev = cfg.stochastic_c_atm_std_dev
\* C25: with a standard deviation of 0 a step with stochastic_C_atm on returns
\* the state the same step returns with it off, whatever is drawn; so a run with
\* the toggle on goes through the states of the run with it off.
C25_ZeroDeviationIsNoRandomness ==
    (/\ driver = "direct"
     /\ Propagated
     /\ call.tg.stochastic_C_atm
     /\ cfg.stochastic_c_atm_std_dev = 0) =>
        /\ heap[call.ret] = WithoutStochastic
        /\ climatestate = call.ret

\* a second step with the toggle on, a deviation of 0 and a draw off the centre
C25_Witness ==
    /\ driver = "direct"
    /\ Propagated
    /\ call.tg.stochastic_C_atm
    /\ cfg.stochastic_c_atm_std_dev = 0
    /\ call.z # 0
    /\ Len(heap) = 3
    /\ heap[call.ret]["C_atm"] = WithoutStochastic["C_atm"]
    /\ heap[call.ret]["C_atm"] # call.before["C_atm"]
\* the run started from a state with the preindustrial albedo and steps forward
\* in time
FromPreindustAlbedo ==
    /\ Len(heap) >= 1
    /\ heap[1]["albedo"] = PreindustAlbedo
    /\ StepOfRun > 0

\* fractional_albedo_floor * preindust_albedo
AlbedoFloor == (fractional_albedo_floor * PreindustAlbedo) \div 10

\* C26: from the preindustrial albedo, every state a run reaches by steps with
\* dtime > 0, whatever the toggles, has an albedo of at least
\* fractional_albedo_floor * preindust_albedo and at most preindust_albedo.
C26_AlbedoBound ==
    FromPreindustAlbedo =>
        \A r \in 1..Len(heap) :
            /\ heap[r]["albedo"] >= AlbedoFloor
            /\ heap[r]["albedo"] <= PreindustAlbedo

\* two steps in a warm world with the rate limit on: the albedo has come down
\* twice and is between the bounds
C26_Witness ==
    /\ FromPreindustAlbedo
    /\ Propagated
    /\ call.tg.albedo_with_no_constraint
    /\ Len(heap) = 3
    /\ heap[2]["albedo"] < PreindustAlbedo
    /\ heap[3]["albedo"] < heap[2]["albedo"]
    /\ heap[3]["albedo"] > AlbedoFloor
\* a direct run with the rate limit on at every step, stepping forward in time
\* from a state that has an albedo
RateLimitedRun ==
    /\ driver = "direct"
    /\ cfg.tg.albedo_with_no_constraint
    /\ cfg.dtime > 0
    /\ heap[1]["albedo"] # 0

\* C27: with the rate limit on at every step and dtime > 0, the albedos of any
\* two consecutive states of a run, the starting state and the first propagated
\* one included, differ by at most max_albedo_change_rate * dtime.
C27_AlbedoRateLimit ==
    RateLimitedRun =>
        \A r \in 1..(Len(heap) - 1) :
            Abs(heap[r + 1]["albedo"] - heap[r]["albedo"])
            <= max_albedo_change_rate * cfg.dtime

\* from the preindustrial albedo in a warm world: two steps, each down by the
\* whole of the limit, the unlimited albedo still further down
C27_Witness ==
    /\ RateLimitedRun
    /\ Len(heap) = 3
    /\ heap[1]["albedo"] = PreindustAlbedo
    /\ heap[1]["albedo"] - heap[2]["albedo"] = max_albedo_change_rate * cfg.dtime
    /\ heap[2]["albedo"] - heap[3]["albedo"] = max_albedo_change_rate * cfg.dtime
    /\ diagnose_albedo(diagnose_temp_anomaly(heap[2]["C_atm"])) < heap[3]["albedo"]
\* the fields of the previous state the claim lets the next state depend on
Carried(tg) ==
    {"C_atm", "C_ocean", "year"}
    \cup (IF tg.albedo_with_no_constraint THEN {"albedo"} ELSE {})

\* prev with every other field overwritten by v
Scrambled(prev, tg, v) ==
    [key \in DOMAIN prev |-> IF key \in Carried(tg) THEN prev[key] ELSE v]

\* values to overwrite the other fields with
ScrambleValues == {-Kelvin(1), Kelvin(3)}

\* C28: with stochastic_C_atm off, the state cambio.py's propagator returns is
\* the state it returns from any previous state with the same C_atm, C_ocean
\* and year, and the same albedo when the rate limit is on, whatever the other
\* fields hold: T_anomaly and the albedo's part in it are not carried over.
C28_DependsOnCarriedFieldsOnly ==
    (Propagated /\ call.variant = "cambio" /\ ~call.tg.stochastic_C_atm) =>
        \A v \in ScrambleValues :
            NextClimateState(Scrambled(call.before, call.tg, v), 0, call.dtime,
                             call.F_ha, call.tg, 0)
            = heap[call.ret]

\* a second step with albedo_feedback on: the previous state's T_anomaly holds
\* an albedo part, the new one is the anomaly of the previous C_atm plus the part
\* of the new albedo alone
C28_Witness ==
    /\ Propagated
    /\ call.variant = "cambio"
    /\ ~call.tg.stochastic_C_atm
    /\ call.tg.albedo_feedback
    /\ Len(heap) = 3
    /\ call.before["T_anomaly"] # diagnose_temp_anomaly(call.before["C_atm"])
    /\ heap[call.ret]["T_anomaly"]
       = diagnose_temp_anomaly(call.before["C_atm"])
         + diagnose_delta_t_from_albedo(heap[call.ret]["albedo"])
    /\ heap[call.ret]["T_anomaly"] # call.before["T_anomaly"]
    /\ \E v \in ScrambleValues :
          Scrambled(call.before, call.tg, v)["albedo"] # call.before["albedo"]
\* the recorded call is a call of a propagator by a direct caller, on a state
\* that has a year, with stochastic_C_atm off
ComparableCall ==
    /\ driver = "direct"
    /\ call.fn = "propagate_climate_state"
    /\ "year" \in DOMAIN call.before
    /\ ~call.tg.stochastic_C_atm

\* what each variant returns for the arguments of the recorded call
CambioResult ==
    NextClimateState(call.before, cfg.stochastic_c_atm_std_dev, call.dtime,
                     call.F_ha, call.tg, 0)

CompareResult ==
    CompareNextClimateState(call.before, cfg.stochastic_c_atm_std_dev,
                            call.dtime, call.F_ha, call.tg, 0)

\* C29: for the same previous state, parameters, dtime, F_ha and toggles
\* (stochastic_C_atm off) both propagator variants complete, and their results
\* are equal in every field both have.
C29_VariantsEquivalent ==
    ComparableCall =>
        /\ ~PropagateRaises(call.before, call.tg)
        /\ ~CompareRaises(call.before, call.tg)
        /\ call.ret # 0
        /\ \A key \in DOMAIN CambioResult \cap DOMAIN CompareResult :
              CambioResult[key] = CompareResult[key]
\* albedo_feedback is off in every step of the run: the drivers never turn it
\* on, a direct caller chooses
NoAlbedoFeedback ==
    \/ Driven
    \/ driver = "direct" /\ ~cfg.tg.albedo_feedback

\* C30: with albedo_feedback off, the T_anomaly of every propagated state is
\* the anomaly of the C_atm of the state before it (the baseline for the first),
\* its pH is the pH of its own C_atm, and its T_C is its T_anomaly plus 14; the
\* series hold the same at every index written.
C30_TemperatureLagsOneStep ==
    (NoAlbedoFeedback /\ Len(heap) >= 1) =>
        /\ \A r \in 2..Len(heap) :
              /\ heap[r]["T_anomaly"] = diagnose_temp_anomaly(heap[r - 1]["C_atm"])
              /\ heap[r]["pH"] = diagnose_ocean_surface_ph(heap[r]["C_atm"])
              /\ heap[r]["T_C"] = heap[r]["T_anomaly"] + Kelvin(14)
        /\ Driven =>
              \A k \in 1..(Len(heap) - 1) :
                 /\ climate["T_anomaly"][k]
                    = diagnose_temp_anomaly(IF k = 1 THEN heap[1]["C_atm"]
                                            ELSE climate["C_atm"][k - 1])
                 /\ climate["pH"][k] = diagnose_ocean_surface_ph(climate["C_atm"][k])
                 /\ climate["T_C"][k] = climate["T_anomaly"][k] + Kelvin(14)

\* two steps of a driver under a rising forcing: the second state is warmer than
\* the first, by the anomaly of the first state's C_atm, not of its own
C30_Witness ==
    /\ Driven
    /\ Len(heap) = 3
    /\ climate["C_atm"][2] > climate["C_atm"][1]
    /\ climate["C_atm"][1] > heap[1]["C_atm"]
    /\ climate["T_anomaly"][2] = diagnose_temp_anomaly(climate["C_atm"][1])
    /\ climate["T_anomaly"][2] # diagnose_temp_anomaly(climate["C_atm"][2])
    /\ climate["T_anomaly"][2] > 0
    /\ climate["T_C"][2] = climate["T_anomaly"][2] + Kelvin(14)
    /\ climate["pH"][2] = diagnose_ocean_surface_ph(climate["C_atm"][2])
    /\ climate["pH"][2] # diagnose_ocean_surface_ph(climate["C_atm"][1])

====
